---- MODULE Spec2Model ----
(***************************************************************************)
(* Model of the query provenance log (prompt_store.py) and of the search   *)
(* and the multi-candidate acquisition loop (load_audio.py).               *)
(*                                                                         *)
(* Text is a sequence of characters.  A character is a one-character       *)
(* string, except for a few named ones (LF, LS, BSN) and for three opaque  *)
(* fragments of a serialized record (HEAD, MID, TAIL) that stand for runs  *)
(* of characters holding no line boundary.                                 *)
(***************************************************************************)
EXTENDS Integers, Sequences, FiniteSets, TLC

(* ------------------------------ bounds -------------------------------- *)
MaxBatch == 2
MaxRecords == 2
MaxLimit == 2
MaxTextLen == 5
MaxGenCalls == 2
MaxVideos == 3
\* search_youtube: the largest limit asked for, the most videos one page of
\* the source holds, the videos the source has in all, and the number up to
\* which the requests to the source are counted
MaxSearchLimit == 3
MaxPage == 2
MaxStream == 4
MaxContacts == 3

(* ---------------------------- characters ------------------------------ *)
\* "\n"
LF == "LF"
\* U+2028 LINE SEPARATOR: a line boundary for str.splitlines, whitespace for
\* str.strip, an ordinary character for json.dumps(ensure_ascii=False)
LS == "LS"
SP == " "
COMMA == ","
LB == "["
RB == "]"
\* the double quote
QT == "Q"
\* the two characters backslash, n: json's escape of "\n" in a string literal
BSN == "BSN"
DIGIT == "1"
\* {"ts": "...", "model": "...", "prompt_id": "...", "raw":<space>
HEAD == "HEAD"
\* , "queries":<space>
MID == "MID"
\* , "queries_sha256": ...}
TAIL == "TAIL"
\* {}
EMPTYOBJ == "{}"

\* str.isspace()
IsSpace(c) == c \in {SP, LF, LS}
\* the whitespace json.loads skips between tokens
IsJsonWs(c) == c \in {SP, LF}
\* the boundaries str.splitlines splits on
IsLineBreak(c) == c \in {LF, LS}
\* what a JSON string literal may hold unescaped (no control character,
\* no quote)
IsStringChar(c) == c \in {"a", "b", "c", SP, COMMA, LB, RB, DIGIT, LS}

(* --------------------------- str methods ------------------------------ *)
RECURSIVE LStrip(_)
LStrip(s) ==
    IF s # <<>> /\ IsSpace(Head(s)) THEN LStrip(Tail(s)) ELSE s

RECURSIVE RStrip(_)
RStrip(s) ==
    IF s # <<>> /\ IsSpace(s[Len(s)]) THEN RStrip(SubSeq(s, 1, Len(s) - 1)) ELSE s

\* str.strip()
Strip(s) == RStrip(LStrip(s))

\* str.splitlines(): cur is the line being read, acc the lines read; a final
\* boundary opens no empty last line
RECURSIVE SplitLinesFrom(_, _, _)
SplitLinesFrom(s, cur, acc) ==
    IF s = <<>> THEN (IF cur = <<>> THEN acc ELSE Append(acc, cur))
    ELSE IF IsLineBreak(Head(s)) THEN SplitLinesFrom(Tail(s), <<>>, Append(acc, cur))
    ELSE SplitLinesFrom(Tail(s), Append(cur, Head(s)), acc)

SplitLines(s) == SplitLinesFrom(s, <<>>, <<>>)

\* str.split(","): always at least one piece
RECURSIVE SplitCommaFrom(_, _, _)
SplitCommaFrom(s, cur, acc) ==
    IF s = <<>> THEN Append(acc, cur)
    ELSE IF Head(s) = COMMA THEN SplitCommaFrom(Tail(s), <<>>, Append(acc, cur))
    ELSE SplitCommaFrom(Tail(s), Append(cur, Head(s)), acc)

SplitComma(s) == SplitCommaFrom(s, <<>>, <<>>)

\* str.replace(", ", ","): left to right, non-overlapping
RECURSIVE ReplaceCommaSpace(_)
ReplaceCommaSpace(s) ==
    IF s = <<>> THEN <<>>
    ELSE IF Len(s) >= 2 /\ s[1] = COMMA /\ s[2] = SP
         THEN <<COMMA>> \o ReplaceCommaSpace(SubSeq(s, 3, Len(s)))
    ELSE <<Head(s)>> \o ReplaceCommaSpace(Tail(s))

\* [f(x) for x in xs if p(x)] with p(x) == x.strip() non-empty
RECURSIVE KeepNonBlank(_)
KeepNonBlank(xs) ==
    IF xs = <<>> THEN <<>>
    ELSE IF Strip(Head(xs)) # <<>> THEN <<Head(xs)>> \o KeepNonBlank(Tail(xs))
    ELSE KeepNonBlank(Tail(xs))

RECURSIVE StripNonBlank(_)
StripNonBlank(xs) ==
    IF xs = <<>> THEN <<>>
    ELSE IF Strip(Head(xs)) # <<>> THEN <<Strip(Head(xs))>> \o StripNonBlank(Tail(xs))
    ELSE StripNonBlank(Tail(xs))

(* ------------------------------- json --------------------------------- *)
\* JSON values: t is the type; s the characters of a string; items the
\* elements of a list, or the "queries" of an object; hasq whether an object
\* has a "queries" key
JStr(s) == [t |-> "str", s |-> s, items |-> <<>>, hasq |-> FALSE]
JArr(items) == [t |-> "list", s |-> <<>>, items |-> items, hasq |-> FALSE]
JNum == [t |-> "int", s |-> <<>>, items |-> <<>>, hasq |-> FALSE]
JObj(items, hasq) == [t |-> "dict", s |-> <<>>, items |-> items, hasq |-> hasq]
JNone == [t |-> "none", s |-> <<>>, items |-> <<>>, hasq |-> FALSE]

POk(v, rest) == [ok |-> TRUE, val |-> v, rest |-> rest]
PFail == [ok |-> FALSE, val |-> JNone, rest |-> <<>>]

RECURSIVE SkipWs(_)
SkipWs(s) == IF s # <<>> /\ IsJsonWs(Head(s)) THEN SkipWs(Tail(s)) ELSE s

RECURSIVE SkipDigits(_)
SkipDigits(s) == IF s # <<>> /\ Head(s) = DIGIT THEN SkipDigits(Tail(s)) ELSE s

\* the characters of a string literal after its opening quote
RECURSIVE ScanString(_, _)
ScanString(s, acc) ==
    IF s = <<>> THEN PFail
    ELSE IF Head(s) = QT THEN POk(JStr(acc), Tail(s))
    ELSE IF Head(s) = BSN THEN ScanString(Tail(s), Append(acc, LF))
    ELSE IF IsStringChar(Head(s)) THEN ScanString(Tail(s), Append(acc, Head(s)))
    ELSE PFail

RECURSIVE ScanValue(_)
RECURSIVE ScanItems(_, _)

\* the elements of a list after a "[" or a ",": a value, then "," or "]"
ScanItems(s, acc) ==
    LET r == ScanValue(SkipWs(s)) IN
    IF ~r.ok THEN PFail
    ELSE LET t == SkipWs(r.rest) IN
         IF t = <<>> THEN PFail
         ELSE IF Head(t) = RB THEN POk(JArr(Append(acc, r.val)), Tail(t))
         ELSE IF Head(t) = COMMA THEN ScanItems(Tail(t), Append(acc, r.val))
         ELSE PFail

\* a serialized record after HEAD: the "raw" string, MID, the "queries"
\* list, TAIL
ScanRecord(s) ==
    LET raw == ScanValue(s) IN
    IF ~raw.ok \/ raw.val.t # "str" \/ raw.rest = <<>> \/ Head(raw.rest) # MID THEN PFail
    ELSE LET qs == ScanValue(SkipWs(Tail(raw.rest))) IN
         IF ~qs.ok \/ qs.val.t # "list" \/ qs.rest = <<>> \/ Head(qs.rest) # TAIL THEN PFail
         ELSE POk(JObj(qs.val.items, TRUE), Tail(qs.rest))

ScanValue(s) ==
    IF s = <<>> THEN PFail
    ELSE IF Head(s) = QT THEN ScanString(Tail(s), <<>>)
    ELSE IF Head(s) = LB THEN
         (LET t == SkipWs(Tail(s)) IN
          IF t # <<>> /\ Head(t) = RB THEN POk(JArr(<<>>), Tail(t))
          ELSE ScanItems(t, <<>>))
    ELSE IF Head(s) = DIGIT THEN POk(JNum, SkipDigits(s))
    ELSE IF Head(s) = EMPTYOBJ THEN POk(JObj(<<>>, FALSE), Tail(s))
    ELSE IF Head(s) = HEAD THEN ScanRecord(SkipWs(Tail(s)))
    ELSE PFail

\* json.loads(text): [ok |-> FALSE] is JSONDecodeError
JsonLoads(text) ==
    LET r == ScanValue(SkipWs(text)) IN
    IF r.ok /\ SkipWs(r.rest) = <<>> THEN [ok |-> TRUE, val |-> r.val]
    ELSE [ok |-> FALSE, val |-> JNone]

\* json.dumps(str, ensure_ascii=False): "\n" is escaped, U+2028 is not
RECURSIVE EscapeChars(_)
EscapeChars(s) ==
    IF s = <<>> THEN <<>>
    ELSE <<IF Head(s) = LF THEN BSN ELSE Head(s)>> \o EscapeChars(Tail(s))

DumpsStr(s) == <<QT>> \o EscapeChars(s) \o <<QT>>

\* json.dumps(list of str): items separated by ", "
RECURSIVE DumpsItems(_)
DumpsItems(qs) ==
    IF qs = <<>> THEN <<>>
    ELSE IF Len(qs) = 1 THEN DumpsStr(qs[1])
    ELSE DumpsStr(qs[1]) \o <<COMMA, SP>> \o DumpsItems(Tail(qs))

DumpsList(qs) == <<LB>> \o DumpsItems(qs) \o <<RB>>

\* "\n".join(queries)
RECURSIVE JoinLF(_)
JoinLF(qs) ==
    IF qs = <<>> THEN <<>>
    ELSE IF Len(qs) = 1 THEN qs[1]
    ELSE qs[1] \o <<LF>> \o JoinLF(Tail(qs))

\* json.dumps(record, ensure_ascii=False) of log_openai_response
DumpsRecord(queries) ==
    <<HEAD>> \o DumpsStr(JoinLF(queries)) \o <<MID>> \o DumpsList(queries) \o <<TAIL>>

(* --------------------------- parse_queries ---------------------------- *)
\* [q for q in parsed if isinstance(q, str) and q.strip()]: the strings are
\* kept as they are
RECURSIVE KeepStrings(_)
KeepStrings(items) ==
    IF items = <<>> THEN <<>>
    ELSE IF Head(items).t = "str" /\ Strip(Head(items).s) # <<>>
         THEN <<Head(items).s>> \o KeepStrings(Tail(items))
    ELSE KeepStrings(Tail(items))

\* parse_queries(raw_text) for a str: the strategy taken and the list returned
ParseQueriesVia(raw_text) ==
    LET parsed == JsonLoads(raw_text)
        queries == StripNonBlank(SplitLines(raw_text))
    IN  IF parsed.ok /\ parsed.val.t = "list"
            THEN [via |-> "json", out |-> KeepStrings(parsed.val.items)]
        ELSE IF queries # <<>> THEN [via |-> "lines", out |-> queries]
        ELSE [via |-> "comma",
              out |-> KeepNonBlank(SplitComma(ReplaceCommaSpace(raw_text)))]

parse_queries(raw_text) == ParseQueriesVia(raw_text).out

(* ------------------------ get_recent_queries -------------------------- *)
Range(f) == {f[i] : i \in DOMAIN f}

\* for q in reversed(queries): the inner loop; done says the limit was
\* reached, which is looked at only after an append
RECURSIVE ScanBatch(_, _, _)
ScanBatch(qs, recent, limit) ==
    IF qs = <<>> THEN [recent |-> recent, done |-> FALSE]
    ELSE LET q == qs[Len(qs)]
             rest == SubSeq(qs, 1, Len(qs) - 1)
         IN  IF q \in Range(recent) THEN ScanBatch(rest, recent, limit)
             ELSE IF Len(recent) + 1 >= limit
                  THEN [recent |-> Append(recent, q), done |-> TRUE]
             ELSE ScanBatch(rest, Append(recent, q), limit)

\* for line in reversed(lines): only JSONDecodeError is caught; obj.get on
\* a value that is no dict raises AttributeError
RECURSIVE ScanLines(_, _, _)
ScanLines(lines, recent, limit) ==
    IF lines = <<>> THEN [raised |-> FALSE, value |-> recent]
    ELSE LET obj == JsonLoads(lines[Len(lines)])
             rest == SubSeq(lines, 1, Len(lines) - 1)
         IN  IF ~obj.ok THEN ScanLines(rest, recent, limit)
             ELSE IF obj.val.t # "dict" THEN [raised |-> TRUE, value |-> <<>>]
             ELSE LET b == ScanBatch(obj.val.items, recent, limit)
                  IN  IF b.done THEN [raised |-> FALSE, value |-> b.recent]
                      ELSE ScanLines(rest, b.recent, limit)

\* get_recent_queries(limit) on a log holding text: the JSON values returned
GetRecent(text, limit) == ScanLines(SplitLines(text), <<>>, limit)

\* the strings of a list of JSON strings
Strings(vals) == [i \in DOMAIN vals |-> vals[i].s]

(* ------------------------------- state -------------------------------- *)
VARIABLES
    \* the file system: DATA_DIR, PREVIOUS_QUERIES_FILE, RESPONSES_LOG and the
    \* text of RESPONSES_LOG (empty while the file is missing)
    dirExists, prevExists, logExists, log,
    \* history: the batches given to log_openai_response, in call order; the
    \* line written into the log from outside ([done, line]) and the text the
    \* log would hold without that line
    appended, inserted, cleanLog,
    \* the last operation that ran, the limit it was given and, for
    \* get_recent_queries, what it returned ([raised, value])
    lastOp, limitArg, recent,
    \* parse_queries: the text it is given, whether the argument is a str
    \* at all, and what it returned ([done, via, out, raised, warned])
    raw_text, raw_is_str, parsed,
    \* os.environ (a key's value, or Absent), _ENV_LOADED and the .env file
    \* ([exists, entries])
    environ, envLoaded, dotenv,
    \* the last generate_queries call: how it ended, the steps it took in
    \* order, the list it returned, the request it built; the calls made so
    \* far and the requests the generation provider received so far
    outcome, trace, returned, request, genCalls, providerCalls,
    \* _demo_search_and_download: where the run is, the search results, the
    \* rank of the candidate the loop is at, its lists, the files under
    \* ./downloads (by video id) and the error the run ended with
    acqPc, videos, idx, audio_segments, downloaded_videos, errors,
    wavFiles, jsonFiles, raisedError,
    \* history: what each attempt did ([cand, ok, exc]), in the order made
    attempts,
    \* search_youtube: where the call is, its arguments, whether the import
    \* of pytube failed (Search = None), the Search object ([results,
    \* has_more_results]), the locals results and consumed, how the call
    \* ended ([value, error]); history: the requests made to the source
    ytPc, query, ytLimit, SearchIsNone, search, results, consumed, ytReturn,
    contacts,
    \* a write of log_openai_response that is under way: the text f.write
    \* has still to put into the file and the batch it belongs to
    pending

fsVars == <<dirExists, prevExists, logExists, log>>
histVars == <<appended, inserted, cleanLog>>
readVars == <<limitArg, recent>>
parseVars == <<raw_text, raw_is_str, parsed>>
envVars == <<environ, envLoaded, dotenv>>
genVars == <<outcome, trace, returned, request, genCalls, providerCalls>>
acqVars == <<acqPc, videos, idx, audio_segments, downloaded_videos, errors,
             wavFiles, jsonFiles, raisedError, attempts>>
searchVars == <<ytPc, query, ytLimit, SearchIsNone, search, results, consumed,
                ytReturn, contacts>>
writeVars == <<pending>>
vars == <<fsVars, histVars, readVars, lastOp, parseVars, envVars, genVars, acqVars,
          searchVars, writeVars>>

\* the query strings the batches are built from: a plain one, one holding
\* "\n", one holding U+2028
QuerySet == {<<"a">>, <<"b", LF>>, <<"a", LS, "b">>}

RECURSIVE SeqsUpTo(_, _)
SeqsUpTo(S, n) ==
    IF n = 0 THEN {<<>>}
    ELSE LET shorter == SeqsUpTo(S, n - 1)
         IN  shorter \cup {Append(q, x) : q \in {r \in shorter : Len(r) = n - 1}, x \in S}

Batches == SeqsUpTo(QuerySet, MaxBatch)

\* lines that are no QueryBatch record: a number (JSON, not an object), an
\* object without queries, text that is no JSON, an empty line
BadLines == {<<DIGIT>>, <<EMPTYOBJ>>, <<"a">>, <<>>}

NoRead == [raised |-> FALSE, value |-> <<>>]

InitFiles ==
    /\ dirExists \in BOOLEAN
    /\ prevExists \in BOOLEAN
    /\ logExists \in BOOLEAN
    /\ (prevExists \/ logExists) => dirExists
    /\ log = <<>>

NoParse == [done |-> FALSE, via |-> "none", out |-> <<>>,
            raised |-> FALSE, warned |-> FALSE]

\* nothing was appended, read or parsed yet
InitHistory ==
    /\ appended = <<>>
    /\ inserted = [done |-> FALSE, line |-> <<>>]
    /\ cleanLog = <<>>
    /\ lastOp = "init"
    /\ limitArg = 0
    /\ recent = NoRead

ParseIdle ==
    /\ raw_text = <<>>
    /\ raw_is_str = TRUE
    /\ parsed = NoParse

\* no storage yet: the state before the first ensure_files()
NoStorage ==
    /\ dirExists = FALSE
    /\ prevExists = FALSE
    /\ logExists = FALSE
    /\ log = <<>>

\* a key os.environ does not hold
Absent == "<absent>"
API_KEY == "OPENAI_API_KEY"
PROMPT_ID == "OPENAI_PROMPT_ID"
EnvKeys == {API_KEY, PROMPT_ID}

NoRequest == [prompt_id |-> "", recent |-> <<>>]

GenIdle ==
    /\ environ = [k \in EnvKeys |-> Absent]
    /\ envLoaded = FALSE
    /\ dotenv = [exists |-> FALSE, entries |-> <<>>]
    /\ outcome = "none"
    /\ trace = <<>>
    /\ returned = <<>>
    /\ request = NoRequest
    /\ genCalls = 0
    /\ providerCalls = 0

NoError == [count |-> 0, last |-> "none"]

\* _demo_search_and_download has not started
AcqIdle ==
    /\ acqPc = "start"
    /\ videos = <<>>
    /\ idx = 1
    /\ audio_segments = <<>>
    /\ downloaded_videos = <<>>
    /\ errors = <<>>
    /\ wavFiles = {}
    /\ jsonFiles = {}
    /\ raisedError = NoError
    /\ attempts = <<>>

NoSource == [results |-> <<>>, has_more_results |-> FALSE]
NoReturn == [value |-> <<>>, error |-> "none"]

\* search_youtube has not been called
SearchIdle ==
    /\ ytPc = "idle"
    /\ query = ""
    /\ ytLimit = 0
    /\ SearchIsNone = FALSE
    /\ search = NoSource
    /\ results = <<>>
    /\ consumed = 0
    /\ ytReturn = NoReturn
    /\ contacts = 0

NoWrite == [text |-> <<>>, queries |-> <<>>]

\* no write is under way
WriteIdle == pending = NoWrite

InitLog ==
    /\ InitFiles
    /\ InitHistory
    /\ ParseIdle
    /\ GenIdle
    /\ AcqIdle
    /\ SearchIdle
    /\ WriteIdle

(* ---------------------------- ensure_files ---------------------------- *)
EnsureFilesEffect_Truncate ==
    /\ dirExists' = TRUE
    /\ prevExists' = TRUE
    /\ logExists' = TRUE
    /\ log' = <<>>

\* the file system after ensure_files(): a missing directory or file is
\* created (the files empty), an existing one is left as it is
EnsureFilesEffect ==
    /\ dirExists' = TRUE
    /\ prevExists' = TRUE
    /\ logExists' = TRUE
    /\ log' = IF logExists THEN log ELSE <<>>

ensure_files ==
    /\ EnsureFilesEffect
    /\ lastOp' = "ensure_files"
    /\ UNCHANGED <<histVars, readVars>>

(* ------------------------- log_openai_response ------------------------ *)
\* the text of the log after f.write(json.dumps(record) + "\n") in mode "a"
AppendRecord(text, queries) == text \o DumpsRecord(queries) \o <<LF>>

log_openai_response(queries) ==
    /\ Len(appended) < MaxRecords
    /\ dirExists' = TRUE
    /\ prevExists' = TRUE
    /\ logExists' = TRUE
    /\ log' = AppendRecord(IF logExists THEN log ELSE <<>>, queries)
    /\ appended' = Append(appended, queries)
    /\ cleanLog' = AppendRecord(cleanLog, queries)
    /\ lastOp' = "log_openai_response"
    /\ UNCHANGED <<inserted, readVars>>

(* ------------------------- get_recent_queries ------------------------- *)
get_recent_queries(limit) ==
    /\ EnsureFilesEffect
    /\ recent' = GetRecent(log', limit)
    /\ limitArg' = limit
    /\ lastOp' = "get_recent_queries"
    /\ UNCHANGED histVars

(* ------------------------- the log's environment ---------------------- *)
\* the text of the first k records written
RECURSIVE RecordsText(_, _)
RecordsText(batches, k) ==
    IF k = 0 THEN <<>>
    ELSE AppendRecord(RecordsText(batches, k - 1), batches[k])

\* somebody else writes one line into the log, at a boundary between the
\* records written so far (k of them before it)
InsertLine(k, line) ==
    /\ logExists
    /\ ~inserted.done
    /\ LET at == Len(RecordsText(appended, k))
       IN  log' = SubSeq(log, 1, at) \o line \o <<LF>> \o SubSeq(log, at + 1, Len(log))
    /\ inserted' = [done |-> TRUE, line |-> line]
    /\ lastOp' = "insert"
    /\ UNCHANGED <<dirExists, prevExists, logExists, appended, cleanLog, readVars>>

otherThanLog == <<parseVars, envVars, genVars, acqVars, searchVars, writeVars>>

NextLog ==
    \/ ensure_files /\ UNCHANGED otherThanLog
    \/ \E queries \in Batches : log_openai_response(queries) /\ UNCHANGED otherThanLog
    \/ \E limit \in 0..MaxLimit : get_recent_queries(limit) /\ UNCHANGED otherThanLog
    \/ \E k \in 0..Len(appended), line \in BadLines :
           InsertLine(k, line) /\ UNCHANGED otherThanLog

SpecLog == InitLog /\ [][NextLog]_vars

(* ===================== claims about the log (SpecLog) ================= *)
NoDuplicates(seq) == \A i, j \in DOMAIN seq : i # j => seq[i] # seq[j]

RECURSIVE Flatten(_)
Flatten(batches) ==
    IF batches = <<>> THEN <<>> ELSE Head(batches) \o Flatten(Tail(batches))

RECURSIVE Reverse(_)
Reverse(seq) ==
    IF seq = <<>> THEN <<>> ELSE Append(Reverse(Tail(seq)), Head(seq))

RECURSIVE FirstOccurrences(_, _)
FirstOccurrences(seq, acc) ==
    IF seq = <<>> THEN acc
    ELSE FirstOccurrences(Tail(seq),
                          IF Head(seq) \in Range(acc) THEN acc ELSE Append(acc, Head(seq)))

\* the logged query strings from the last query of the last batch back to
\* the first query of the first batch, each at its first occurrence met
MostRecentFirst(batches) == FirstOccurrences(Reverse(Flatten(batches)), <<>>)

Take(seq, n) == SubSeq(seq, 1, IF n < Len(seq) THEN n ELSE Len(seq))

JustRead == lastOp = "get_recent_queries"

\* C1: whatever the log holds and for every limit >= 0, the list that
\* get_recent_queries(limit) returns has no string twice and at most limit
\* elements.
C1_DistinctAndWithinLimit ==
    (JustRead /\ ~recent.raised) =>
        /\ NoDuplicates(recent.value)
        /\ Len(recent.value) <= limitArg

\* C2: after any sequence of appended batches, get_recent_queries(limit)
\* returns the first min(limit, k) elements of the most-recent-first sequence
\* of the k distinct logged strings.
C2_MostRecentFirstPrefix ==
    (JustRead /\ ~inserted.done) =>
        /\ ~recent.raised
        /\ Strings(recent.value) = Take(MostRecentFirst(appended), limitArg)

\* C3: with one line that is no QueryBatch record written between the
\* records, get_recent_queries does not raise and returns what it returns for
\* the log without that line.
C3_BadLineIsSkipped ==
    (JustRead /\ inserted.done) =>
        /\ ~recent.raised
        /\ recent = GetRecent(cleanLog, limitArg)

\* the record log_openai_response writes for a batch, as json.loads gives it
\* back
RecordOf(queries) == JObj([i \in DOMAIN queries |-> JStr(queries[i])], TRUE)

\* C4: after N log_openai_response calls, interleaved with ensure_files
\* calls, the lines the reader splits the log into are exactly the N records,
\* in call order, each the batch that was appended.
C4_OneRecordPerLine ==
    ~inserted.done =>
        LET lines == SplitLines(log)
        IN  /\ Len(lines) = Len(appended)
            /\ \A i \in DOMAIN lines :
                   JsonLoads(lines[i]) = [ok |-> TRUE, val |-> RecordOf(appended[i])]

(* ============== ensure_files among its callers (SpecFiles) ============ *)
\* get_recent_queries(limit=200) in load_prompt
RecentLimit == 200

\* the batches logged here: of a plain query string and of one holding "\n"
FileBatches == SeqsUpTo({<<"a">>, <<"b", LF>>}, MaxBatch)

\* ensure_files() itself, and its callers: log_openai_response and the
\* get_recent_queries(limit=200) of load_prompt
NextFiles ==
    \/ ensure_files /\ UNCHANGED otherThanLog
    \/ \E queries \in FileBatches : log_openai_response(queries) /\ UNCHANGED otherThanLog
    \/ get_recent_queries(RecentLimit) /\ UNCHANGED otherThanLog

SpecFiles == InitLog /\ [][NextFiles]_vars

\* C14: ensure_files is idempotent and destroys nothing: after it the
\* directory and both files exist, what existed before is as it was (the
\* text of an existing log above all), a file it creates is empty, and a
\* second call right after the first changes nothing.
C14_EnsureFilesIdempotent ==
    [][lastOp' = "ensure_files" =>
          /\ dirExists' /\ prevExists' /\ logExists'
          /\ logExists => log' = log
          /\ ~logExists => log' = <<>>
          /\ lastOp = "ensure_files" => fsVars' = fsVars]_vars

\* ensure_files has run on a log that held two records and left them there
C14_Witness ==
    /\ lastOp = "ensure_files"
    /\ Len(appended) = 2
    /\ log = RecordsText(appended, 2)
    /\ log # <<>>

(* ========= a write that is cut short, and a reader (SpecWrite) ======== *)
\* the batches written here: one plain query string each
WriteBatches == {<< <<"a">> >>, << <<"b">> >>}

\* f.write(json.dumps(record) + "\n") reaches the file in two parts: the
\* first n characters are in the file, the rest (the end of the JSON text
\* and the "\n") is still to be written
WriteBegin(queries, n) ==
    /\ pending = NoWrite
    /\ ~inserted.done
    /\ Len(appended) < MaxRecords
    /\ LET text == DumpsRecord(queries)
       IN  /\ n \in 1..(Len(text) - 1)
           /\ log' = (IF logExists THEN log ELSE <<>>) \o SubSeq(text, 1, n)
           /\ pending' = [text |-> SubSeq(text, n + 1, Len(text)) \o <<LF>>,
                          queries |-> queries]
    /\ dirExists' = TRUE
    /\ prevExists' = TRUE
    /\ logExists' = TRUE
    /\ lastOp' = "write"
    /\ UNCHANGED <<histVars, readVars>>

\* the rest of the record reaches the file: the record is complete
WriteEnd ==
    /\ pending # NoWrite
    /\ log' = log \o pending.text
    /\ appended' = Append(appended, pending.queries)
    /\ cleanLog' = AppendRecord(cleanLog, pending.queries)
    /\ pending' = NoWrite
    /\ lastOp' = "log_openai_response"
    /\ UNCHANGED <<dirExists, prevExists, logExists, inserted, readVars>>

\* the writer stops before the rest is written: the part written stays in
\* the file, without its "\n"
WriterStops ==
    /\ pending # NoWrite
    /\ LET text == AppendRecord(<<>>, pending.queries)
       IN  inserted' = [done |-> TRUE,
                        line |-> SubSeq(text, 1, Len(text) - Len(pending.text))]
    /\ pending' = NoWrite
    /\ lastOp' = "stop"
    /\ UNCHANGED <<fsVars, appended, cleanLog, readVars>>

unchangedByWrite == <<parseVars, envVars, genVars, acqVars, searchVars>>

NextWrite ==
    \/ \E queries \in WriteBatches :
           \E n \in 1..Len(DumpsRecord(queries)) :
               WriteBegin(queries, n) /\ UNCHANGED unchangedByWrite
    \/ WriteEnd /\ UNCHANGED unchangedByWrite
    \/ WriterStops /\ UNCHANGED unchangedByWrite
    \/ \E queries \in WriteBatches :
           /\ pending = NoWrite
           /\ log_openai_response(queries)
           /\ UNCHANGED otherThanLog
    \/ \E limit \in 0..MaxLimit : get_recent_queries(limit) /\ UNCHANGED otherThanLog

SpecWrite == InitLog /\ [][NextWrite]_vars

\* C17: with a writer that appends and a reader, and with a record left
\* partly written, the reader does not fail and returns the queries of the
\* completely written records, those before and those after the partial
\* one, as if the partial record were not there.
C17_PartialRecordIsSkipped ==
    JustRead =>
        /\ ~recent.raised
        /\ recent = GetRecent(cleanLog, limitArg)

(* ==================== parse_queries as a step (SpecParse) ============= *)
\* the characters the enumerated texts are built from
TextChars == {"a", SP, COMMA, LF, LB, RB, QT}

\* every text of n characters
TextsOfLen(n) == [1..n -> TextChars]

\* texts beyond the enumerated length: "a, b,c"; json.dumps(["a","b","c"]);
\* "a\nb\n\nc"; [" a "]; [1, "a"]; a line ending in U+2028
SampleTexts ==
    { <<"a", COMMA, SP, "b", COMMA, "c">>,
      DumpsList(<< <<"a">>, <<"b">>, <<"c">> >>),
      <<"a", LF, "b", LF, LF, "c">>,
      <<LB, QT, SP, "a", SP, QT, RB>>,
      <<LB, DIGIT, COMMA, SP, QT, "a", QT, RB>>,
      <<"a", COMMA, "b", LS, "c">> }

InitParse ==
    /\ NoStorage
    /\ InitHistory
    /\ \/ /\ raw_is_str = TRUE
          /\ raw_text \in (UNION {TextsOfLen(n) : n \in 0..MaxTextLen}) \cup SampleTexts
       \/ /\ raw_is_str = FALSE
          /\ raw_text = <<>>
    /\ parsed = NoParse
    /\ GenIdle
    /\ AcqIdle
    /\ SearchIdle
    /\ WriteIdle

\* if not isinstance(raw_text, str): the warning is printed and [] returned
NotAString == [done |-> TRUE, via |-> "not_str", out |-> <<>>,
               raised |-> FALSE, warned |-> TRUE]

\* one call of parse_queries: json.loads sits under except Exception, and
\* splitlines, split, replace and strip raise nothing on a str
ParseQueries ==
    /\ ~parsed.done
    /\ parsed' = IF ~raw_is_str THEN NotAString
                  ELSE [done |-> TRUE,
                        via |-> ParseQueriesVia(raw_text).via,
                        out |-> parse_queries(raw_text),
                        raised |-> FALSE, warned |-> FALSE]
    /\ lastOp' = "parse_queries"
    /\ UNCHANGED <<fsVars, histVars, readVars, raw_text, raw_is_str, envVars, genVars,
                   acqVars, searchVars, writeVars>>

NextParse == ParseQueries

SpecParse == InitParse /\ [][NextParse]_vars

(* ====================== claims about parse_queries ==================== *)
IsBlank(text) == Strip(text) = <<>>
IsSingleLine(text) == \A i \in DOMAIN text : ~IsLineBreak(text[i])
IsJsonList(text) == JsonLoads(text).ok /\ JsonLoads(text).val.t = "list"

\* the trimmed non-empty items of a comma-separated text
CommaItems(text) == StripNonBlank(SplitComma(text))

\* C9: a text that is no JSON array and has no newline structure is split
\* on commas: every non-blank single-line text yields its trimmed non-empty
\* comma-separated items ("a, b,c" yields a, b, c).
C9_CommaFallback ==
    (parsed.done /\ ~IsBlank(raw_text) /\ IsSingleLine(raw_text) /\ ~IsJsonList(raw_text)) =>
        parsed.out = CommaItems(raw_text)

\* the string elements of a JSON list, in order
RECURSIVE StringItems(_)
StringItems(items) ==
    IF items = <<>> THEN <<>>
    ELSE IF Head(items).t = "str" THEN <<Head(items).s>> \o StringItems(Tail(items))
    ELSE StringItems(Tail(items))

\* C10: whichever strategy produced it, every element parse_queries returns
\* is a non-empty string without leading or trailing whitespace, in input
\* order; of a JSON array the string elements, trimmed, are what is kept.
C10_TrimmedNonEmpty ==
    parsed.done =>
        /\ \A i \in DOMAIN parsed.out :
               parsed.out[i] # <<>> /\ Strip(parsed.out[i]) = parsed.out[i]
        /\ IsJsonList(raw_text) =>
               parsed.out = StripNonBlank(StringItems(JsonLoads(raw_text).val.items))

\* C11: parse_queries raises for no str argument, returns an empty list only for a
\* text that is empty or whitespace only, and a non-string argument is
\* reported (by an error or a warning), never passed off silently.
C11_EmptyOnlyForBlank ==
    parsed.done =>
        /\ raw_is_str => ~parsed.raised
        /\ (raw_is_str /\ parsed.out = <<>>) => IsBlank(raw_text)
        /\ ~raw_is_str => (parsed.raised \/ parsed.warned)

(* ================= load_env and generate_queries (SpecGen) ============ *)
RECURSIVE ApplyEntries_Overwrite(_, _)
ApplyEntries_Overwrite(env, entries) ==
    IF entries = <<>> THEN env
    ELSE LET e == Head(entries)
         IN  IF e.key = "" THEN ApplyEntries_Overwrite(env, Tail(entries))
             ELSE ApplyEntries_Overwrite([env EXCEPT ![e.key] = e.value], Tail(entries))

\* the for loop of load_env over the key=value lines of the file: a line
\* with an empty key, or with a key os.environ holds already, is skipped
RECURSIVE ApplyEntries(_, _)
ApplyEntries(env, entries) ==
    IF entries = <<>> THEN env
    ELSE LET e == Head(entries)
         IN  IF e.key = "" \/ env[e.key] # Absent
                 THEN ApplyEntries(env, Tail(entries))
             ELSE ApplyEntries([env EXCEPT ![e.key] = e.value], Tail(entries))

\* os.environ after load_env(): nothing is read once _ENV_LOADED is set, or
\* when the file is missing
EnvAfterLoad ==
    IF envLoaded \/ ~dotenv.exists THEN environ
    ELSE ApplyEntries(environ, dotenv.entries)

load_env ==
    /\ environ' = EnvAfterLoad
    /\ envLoaded' = TRUE
    /\ lastOp' = "load_env"
    /\ UNCHANGED <<fsVars, histVars, readVars, parseVars, dotenv, genVars, acqVars,
                   searchVars, writeVars>>

\* what the provider may answer: None or empty text, blank text, two lines,
\* an empty JSON list, a JSON list of one query holding U+2028, the same
\* line twice
ProviderOutputs ==
    { <<>>,
      <<SP, LF>>,
      <<"a", LF, "b", LF>>,
      <<"a", LF, "a">>,
      <<LB, RB>>,
      <<LB, QT, "a", LS, "b", QT, RB>> }

\* error: client.responses.create raised
Responses ==
    {[error |-> TRUE, text |-> <<>>]}
        \cup {[error |-> FALSE, text |-> t] : t \in ProviderOutputs}

GenRun(o, tr, created, append, queries) ==
    [outcome |-> o, trace |-> tr, created |-> created, append |-> append,
     queries |-> queries]

\* a slip: the record is logged before the output is tested for emptiness
GenerateRun_LogBeforeEmptyCheck(api_key, include_previous, read, response) ==
    LET start == <<"load_env", "ensure_files">>
        toCreate == start \o <<"OpenAI", "load_prompt", "responses.create">>
        output_text == Strip(response.text)
    IN  IF api_key \in {Absent, ""} THEN GenRun("ValueError", start, 0, FALSE, <<>>)
        ELSE IF include_previous /\ read.raised
            THEN GenRun("AttributeError", start \o <<"OpenAI", "load_prompt">>, 0, FALSE, <<>>)
        ELSE IF response.error THEN GenRun("ProviderError", toCreate, 1, FALSE, <<>>)
        ELSE IF output_text = <<>>
            THEN GenRun("RuntimeError",
                        toCreate \o <<"parse_queries", "log_openai_response">>,
                        1, TRUE, parse_queries(output_text))
        ELSE GenRun("ok",
                    toCreate \o <<"parse_queries", "log_openai_response", "return">>,
                    1, TRUE, parse_queries(output_text))

\* a slip: the client is built and the request sent before the key is tested
GenerateRun_KeyCheckAfterCreate(api_key, include_previous, read, response) ==
    LET start == <<"load_env", "ensure_files">>
        toCreate == start \o <<"OpenAI", "load_prompt", "responses.create">>
        output_text == Strip(response.text)
    IN  IF include_previous /\ read.raised
            THEN GenRun("AttributeError", start \o <<"OpenAI", "load_prompt">>, 0, FALSE, <<>>)
        ELSE IF response.error THEN GenRun("ProviderError", toCreate, 1, FALSE, <<>>)
        ELSE IF api_key \in {Absent, ""} THEN GenRun("ValueError", toCreate, 1, FALSE, <<>>)
        ELSE IF output_text = <<>> THEN GenRun("RuntimeError", toCreate, 1, FALSE, <<>>)
        ELSE GenRun("ok",
                    toCreate \o <<"parse_queries", "log_openai_response", "return">>,
                    1, TRUE, parse_queries(output_text))

\* the body of generate_queries after load_env() and ensure_files(), in the
\* order of the code: how the call ends, the steps taken, the requests sent
\* to the provider, whether a record is appended and with which queries.
\* read is what get_recent_queries(200) gives, response the provider's answer
GenerateRun(api_key, include_previous, read, response) ==
    LET start == <<"load_env", "ensure_files">>
        toCreate == start \o <<"OpenAI", "load_prompt", "responses.create">>
        output_text == Strip(response.text)
    IN  IF api_key \in {Absent, ""} THEN GenRun("ValueError", start, 0, FALSE, <<>>)
        ELSE IF include_previous /\ read.raised
            THEN GenRun("AttributeError", start \o <<"OpenAI", "load_prompt">>, 0, FALSE, <<>>)
        ELSE IF response.error THEN GenRun("ProviderError", toCreate, 1, FALSE, <<>>)
        ELSE IF output_text = <<>> THEN GenRun("RuntimeError", toCreate, 1, FALSE, <<>>)
        ELSE GenRun("ok",
                    toCreate \o <<"parse_queries", "log_openai_response", "return">>,
                    1, TRUE, parse_queries(output_text))

generate_queries(include_previous, response) ==
    LET env == EnvAfterLoad
        text == IF logExists THEN log ELSE <<>>
        read == GetRecent(text, RecentLimit)
        run == GenerateRun(env[API_KEY], include_previous, read, response)
    IN  /\ genCalls < MaxGenCalls
        /\ environ' = env
        /\ envLoaded' = TRUE
        /\ dirExists' = TRUE
        /\ prevExists' = TRUE
        /\ logExists' = TRUE
        /\ log' = IF run.append THEN AppendRecord(text, run.queries) ELSE text
        /\ appended' = IF run.append THEN Append(appended, run.queries) ELSE appended
        /\ cleanLog' = IF run.append THEN AppendRecord(cleanLog, run.queries) ELSE cleanLog
        /\ outcome' = run.outcome
        /\ trace' = run.trace
        /\ returned' = IF run.outcome = "ok" THEN run.queries ELSE <<>>
        /\ request' = IF run.created = 1
                          THEN [prompt_id |-> IF env[PROMPT_ID] = Absent THEN ""
                                              ELSE env[PROMPT_ID],
                                recent |-> IF include_previous THEN Strings(read.value)
                                           ELSE <<>>]
                      ELSE request
        /\ providerCalls' = providerCalls + run.created
        /\ genCalls' = genCalls + 1
        /\ lastOp' = "generate_queries"
        /\ UNCHANGED <<inserted, readVars, parseVars, dotenv, acqVars, searchVars,
                       writeVars>>

\* the .env files tried: none, an empty one, one that sets the key, one that
\* sets it to nothing, one that sets the prompt and twice the key
DotenvFiles ==
    { [exists |-> FALSE, entries |-> <<>>],
      [exists |-> TRUE, entries |-> <<>>],
      [exists |-> TRUE, entries |-> <<[key |-> API_KEY, value |-> "file-key"]>>],
      [exists |-> TRUE, entries |-> <<[key |-> API_KEY, value |-> ""]>>],
      [exists |-> TRUE, entries |-> <<[key |-> PROMPT_ID, value |-> "file-prompt"],
                                      [key |-> "", value |-> "x"],
                                      [key |-> API_KEY, value |-> "file-key"],
                                      [key |-> API_KEY, value |-> "file-key-2"]>>] }

InitGen ==
    /\ \/ NoStorage /\ inserted = [done |-> FALSE, line |-> <<>>]
       \/ /\ dirExists = TRUE /\ prevExists = TRUE /\ logExists = TRUE
          /\ \/ log = <<>> /\ inserted = [done |-> FALSE, line |-> <<>>]
             \/ log = <<DIGIT, LF>> /\ inserted = [done |-> TRUE, line |-> <<DIGIT>>]
    /\ appended = <<>>
    /\ cleanLog = <<>>
    /\ lastOp = "init"
    /\ limitArg = 0
    /\ recent = NoRead
    /\ ParseIdle
    /\ environ \in [EnvKeys -> {Absent, "", "env-value"}]
    /\ envLoaded = FALSE
    /\ dotenv \in DotenvFiles
    /\ outcome = "none"
    /\ trace = <<>>
    /\ returned = <<>>
    /\ request = NoRequest
    /\ genCalls = 0
    /\ providerCalls = 0
    /\ AcqIdle
    /\ SearchIdle
    /\ WriteIdle

NextGen ==
    \/ load_env
    \/ \E include_previous \in BOOLEAN, response \in Responses :
           generate_queries(include_previous, response)

SpecGen == InitGen /\ [][NextGen]_vars

(* ===================== claims about generate_queries ================== *)
Count(seq, x) == Cardinality({i \in DOMAIN seq : seq[i] = x})

\* the position of the first x in seq, 0 when it holds none
IndexOf(seq, x) ==
    IF x \in Range(seq) THEN CHOOSE i \in DOMAIN seq :
                                 seq[i] = x /\ \A j \in 1..(i - 1) : seq[j] # x
    ELSE 0

\* the step is a call of generate_queries
GenerateStep == genCalls' = genCalls + 1

\* C7: a call of generate_queries that returns has sent the provider one
\* request and then, before returning, appended one record (the batch it
\* returns) to the log; a call that fails has appended nothing and leaves the
\* log's text as it was.
C7_OneAppendPerSuccess ==
    [][GenerateStep =>
          /\ outcome' = "ok" =>
                /\ log' = AppendRecord(log, returned')
                /\ appended' = Append(appended, returned')
                /\ providerCalls' = providerCalls + 1
                /\ Count(trace', "responses.create") = 1
                /\ Count(trace', "log_openai_response") = 1
                /\ IndexOf(trace', "responses.create") < IndexOf(trace', "log_openai_response")
                /\ IndexOf(trace', "log_openai_response") < IndexOf(trace', "return")
          /\ outcome' # "ok" =>
                /\ log' = log
                /\ appended' = appended
                /\ Count(trace', "log_openai_response") = 0
                /\ providerCalls' <= providerCalls + 1]_vars

\* a call returned after a call that had already logged a batch, with the
\* deduplication context in its request
C7_Witness ==
    /\ lastOp = "generate_queries"
    /\ outcome = "ok"
    /\ Len(appended) = 2
    /\ request.recent # <<>>

\* neither os.environ nor the .env file gives the API key a value
NoKeyConfigured ==
    /\ environ[API_KEY] \in {Absent, ""}
    /\ \A i \in DOMAIN dotenv.entries :
           dotenv.entries[i].key = API_KEY => dotenv.entries[i].value = ""

\* C8: with no API key configured, generate_queries fails with the
\* configuration error before the provider's client is built or a request
\* sent, and appends nothing.
C8_NoKeyFailsBeforeProvider ==
    [][(GenerateStep /\ NoKeyConfigured) =>
          /\ outcome' = "ValueError"
          /\ providerCalls' = providerCalls
          /\ "OpenAI" \notin Range(trace')
          /\ "responses.create" \notin Range(trace')
          /\ log' = log
          /\ appended' = appended]_vars

\* a call failed for want of a key although a .env file is there
C8_Witness ==
    /\ lastOp = "generate_queries"
    /\ outcome = "ValueError"
    /\ dotenv.exists
    /\ providerCalls = 0

\* C16: every batch generate_queries logs, and the list it returns, holds
\* no query string twice, whatever the provider answered.
C16_LoggedBatchDistinct ==
    /\ \A i \in DOMAIN appended : NoDuplicates(appended[i])
    /\ NoDuplicates(returned)

\* C15: load_env never overwrites the environment: in every step a key
\* that has a value keeps it, a key that gets a value had none and gets it
\* from an entry of the .env file, and once load_env has run (_ENV_LOADED)
\* no later call changes anything.
C15_LoadEnvKeepsEnvironment ==
    [][/\ envLoaded => environ' = environ
       /\ \A k \in EnvKeys :
              /\ environ[k] # Absent => environ'[k] = environ[k]
              /\ environ'[k] # environ[k] =>
                     \E i \in DOMAIN dotenv.entries :
                         /\ dotenv.entries[i].key = k
                         /\ dotenv.entries[i].value = environ'[k]]_vars

\* load_env has run on a file that sets both keys while the environment
\* held the API key: that key kept its value, the prompt id came from the
\* file
C15_Witness ==
    /\ lastOp = "load_env"
    /\ envLoaded
    /\ \E i \in DOMAIN dotenv.entries :
           dotenv.entries[i].key = API_KEY /\ dotenv.entries[i].value = "file-key"
    /\ environ[API_KEY] = "env-value"
    /\ environ[PROMPT_ID] = "file-prompt"

(* ============== _demo_search_and_download (SpecAcq) =================== *)
Titles == {"t1", "t2"}
VideoIds == {"id1", "id2"}

\* what one pass of the loop body may do: download_audio_segment raises;
\* or it returns metadata with an id and audio_segment.export raises, the
\* .wav file left behind or not; or the .wav is written and writing the .json
\* raises, the .json file left behind or not; or both files are written
AttemptResults ==
    {[stage |-> "download", ok |-> FALSE, exc |-> e, id |-> "none",
      wav |-> FALSE, json |-> FALSE] : e \in {"yt-dlp failed", "file not found"}}
    \cup {[stage |-> "export", ok |-> FALSE, exc |-> "export failed", id |-> v,
           wav |-> w, json |-> FALSE] : v \in VideoIds, w \in BOOLEAN}
    \cup {[stage |-> "json", ok |-> FALSE, exc |-> "json failed", id |-> v,
           wav |-> TRUE, json |-> j] : v \in VideoIds, j \in BOOLEAN}
    \cup {[stage |-> "done", ok |-> TRUE, exc |-> "none", id |-> v,
           wav |-> TRUE, json |-> TRUE] : v \in VideoIds}

unchangedByAcq == <<fsVars, histVars, readVars, lastOp, parseVars, envVars, genVars,
                    searchVars, writeVars>>

\* videos = search_youtube(...); nothing found ends the run before the loop
Search(found) ==
    /\ acqPc = "start"
    /\ videos' = found
    /\ acqPc' = IF found = <<>> THEN "no_videos" ELSE "loop"
    /\ UNCHANGED <<idx, audio_segments, downloaded_videos, errors, wavFiles,
                   jsonFiles, raisedError, attempts>>
    /\ UNCHANGED unchangedByAcq

\* a slip: break after the first download that succeeded
NextCandidate_BreakOnSuccess(i, ok) == IF ok THEN Len(videos) + 1 ELSE i + 1

\* for video in videos: the rank the loop goes to after candidate i, whether
\* the attempt succeeded or raised (the body has no break)
NextCandidate(i, ok) == i + 1

\* one pass of the loop body, for the candidate of rank idx
Attempt(r) ==
    /\ acqPc = "loop"
    /\ idx <= Len(videos)
    /\ attempts' = Append(attempts, [cand |-> idx, ok |-> r.ok, exc |-> r.exc])
    /\ wavFiles' = IF r.wav THEN wavFiles \cup {r.id} ELSE wavFiles
    /\ jsonFiles' = IF r.json THEN jsonFiles \cup {r.id} ELSE jsonFiles
    /\ audio_segments' = IF r.ok THEN Append(audio_segments, r.id) ELSE audio_segments
    /\ downloaded_videos' =
           IF r.ok THEN Append(downloaded_videos, videos[idx]) ELSE downloaded_videos
    /\ errors' = IF r.ok THEN errors ELSE Append(errors, <<videos[idx], r.exc>>)
    /\ idx' = NextCandidate(idx, r.ok)
    /\ UNCHANGED <<acqPc, videos, raisedError>>
    /\ UNCHANGED unchangedByAcq

\* a slip: the run is failed as soon as one candidate failed
NothingDownloaded_AnyError == errors # <<>>

\* if not audio_segments
NothingDownloaded == audio_segments = <<>>

\* after the loop: RuntimeError with the number of results and the last
\* error, or the summary
Finish ==
    /\ acqPc = "loop"
    /\ idx > Len(videos)
    /\ IF NothingDownloaded
           THEN /\ acqPc' = "raised"
                /\ raisedError' = [count |-> Len(videos),
                                   last |-> IF errors # <<>> THEN errors[Len(errors)][2]
                                            ELSE "unknown"]
       ELSE /\ acqPc' = "finished"
            /\ UNCHANGED raisedError
    /\ UNCHANGED <<videos, idx, audio_segments, downloaded_videos, errors, wavFiles,
                   jsonFiles, attempts>>
    /\ UNCHANGED unchangedByAcq

InitAcq ==
    /\ NoStorage
    /\ InitHistory
    /\ ParseIdle
    /\ GenIdle
    /\ AcqIdle
    /\ SearchIdle
    /\ WriteIdle

NextAcq ==
    \/ \E found \in SeqsUpTo(Titles, MaxVideos) : Search(found)
    \/ \E r \in AttemptResults : Attempt(r)
    \/ Finish

SpecAcq == InitAcq /\ [][NextAcq]_vars

(* =================== claims about the acquisition loop ================ *)
AcqEnded == acqPc \in {"no_videos", "raised", "finished"}

RECURSIVE FailedAttempts(_)
FailedAttempts(as) ==
    IF as = <<>> THEN <<>>
    ELSE IF Head(as).ok THEN FailedAttempts(Tail(as))
    ELSE <<Head(as)>> \o FailedAttempts(Tail(as))

C19_ArtifactsInPairs ==
    AcqEnded =>
        /\ wavFiles = jsonFiles
        /\ wavFiles = Range(audio_segments)

(* ===================== search_youtube (SpecSearch) ==================== *)
UNTITLED == <<"Untitled video">>

\* the k-th video the source has for the query; watch_url 0 stands for a
\* watch_url that is None or empty
Video(k) ==
    [video_id |-> k,
     title |-> IF k % 3 = 0 THEN <<SP>> ELSE IF k % 3 = 1 THEN <<"a">> ELSE <<SP, "b">>,
     watch_url |-> IF k % 2 = 0 THEN 0 ELSE k]

\* search.results once the source has delivered n videos
Stream(n) == [k \in 1..n |-> Video(k)]

\* {"title": title, "url": url} of one video: the title stripped, or
\* "Untitled video"; the watch_url, or the URL built from the video_id
Entry(video) ==
    [title |-> IF Strip(video.title) = <<>> THEN UNTITLED ELSE Strip(video.title),
     url |-> IF video.watch_url # 0 THEN [attr |-> "watch_url", id |-> video.watch_url]
             ELSE IF video.video_id # 0 THEN [attr |-> "watch?v=", id |-> video.video_id]
             ELSE [attr |-> "", id |-> 0]]

Min(a, b) == IF a < b THEN a ELSE b

Slice_FromStart(items, n) == items

\* search.results[consumed:]
Slice(items, n) == SubSeq(items, n + 1, Len(items))

\* for video in search.results[consumed:]: every video met is counted in
\* consumed and appended; the loop is left once limit entries are collected
RECURSIVE ForVideos(_, _, _, _)
ForVideos(vs, res, cons, lim) ==
    IF vs = <<>> THEN [results |-> res, consumed |-> cons]
    ELSE LET r == Append(res, Entry(Head(vs)))
         IN  IF Len(r) >= lim THEN [results |-> r, consumed |-> cons + 1]
             ELSE ForVideos(Tail(vs), r, cons + 1, lim)

unchangedBySearch == <<fsVars, histVars, readVars, parseVars, envVars, genVars, acqVars,
                       writeVars>>

\* return value / raise of search_youtube
YtEnd(pc, value, error) ==
    /\ ytPc' = pc
    /\ ytReturn' = [value |-> value, error |-> error]

\* the call up to the loop: the three checks in the order the code makes
\* them, then Search(query); the first page is what search.results holds
\* when it is first read, has_more_results what getattr(search,
\* "has_more_results", False) gives
search_youtube(q, lim) ==
    /\ ytPc = "idle"
    /\ query' = q
    /\ ytLimit' = lim
    /\ IF q = ""
           THEN YtEnd("returned", <<>>, "none") /\ UNCHANGED <<search, contacts>>
       ELSE IF SearchIsNone
           THEN YtEnd("raised", <<>>, "RuntimeError") /\ UNCHANGED <<search, contacts>>
       ELSE IF lim <= 0
           THEN YtEnd("returned", <<>>, "none") /\ UNCHANGED <<search, contacts>>
       ELSE /\ \E n \in 0..MaxPage, more \in BOOLEAN :
                   search' = [results |-> Stream(n), has_more_results |-> more]
            /\ contacts' = 1
            /\ ytPc' = "while"
            /\ UNCHANGED ytReturn
    /\ results' = <<>>
    /\ consumed' = 0
    /\ lastOp' = "search_youtube"
    /\ UNCHANGED <<SearchIsNone, unchangedBySearch>>

\* while len(results) < limit: the test, and the request for the next page
\* when every video held was consumed; get_next_results() adds a page of
\* zero or more videos to search.results
WhileStep ==
    /\ ytPc = "while"
    /\ IF Len(results) < ytLimit
           THEN IF consumed >= Len(search.results)
                    THEN IF search.has_more_results
                             THEN /\ \E n \in 0..MaxPage, more \in BOOLEAN :
                                         /\ Len(search.results) + n <= MaxStream
                                         /\ search' = [results |-> Stream(Len(search.results) + n),
                                                       has_more_results |-> more]
                                  /\ contacts' = Min(contacts + 1, MaxContacts)
                                  /\ ytPc' = "for"
                                  /\ UNCHANGED ytReturn
                         ELSE /\ YtEnd("returned", results, "none")
                              /\ UNCHANGED <<search, contacts>>
                ELSE /\ ytPc' = "for"
                     /\ UNCHANGED <<search, contacts, ytReturn>>
       ELSE /\ YtEnd("returned", results, "none")
            /\ UNCHANGED <<search, contacts>>
    /\ UNCHANGED <<query, ytLimit, SearchIsNone, results, consumed, lastOp,
                   unchangedBySearch>>

\* the for loop over the videos not consumed yet
ForStep ==
    /\ ytPc = "for"
    /\ LET r == ForVideos(Slice(search.results, consumed), results, consumed, ytLimit)
       IN  /\ results' = r.results
           /\ consumed' = r.consumed
    /\ ytPc' = "while"
    /\ UNCHANGED <<query, ytLimit, SearchIsNone, search, ytReturn, contacts, lastOp,
                   unchangedBySearch>>

InitSearch ==
    /\ NoStorage
    /\ InitHistory
    /\ ParseIdle
    /\ GenIdle
    /\ AcqIdle
    /\ WriteIdle
    /\ ytPc = "idle"
    /\ query = ""
    /\ ytLimit = 0
    /\ SearchIsNone \in BOOLEAN
    /\ search = NoSource
    /\ results = <<>>
    /\ consumed = 0
    /\ ytReturn = NoReturn
    /\ contacts = 0

NextSearch ==
    \/ \E q \in {"", "q"}, lim \in -1..MaxSearchLimit : search_youtube(q, lim)
    \/ WhileStep
    \/ ForStep

SpecSearch == InitSearch /\ [][NextSearch]_vars

\* the call runs on: a step it can take is taken
SpecSearchFair == SpecSearch /\ WF_vars(NextSearch)

(* ====================== claims about search_youtube =================== *)
YtEnded == ytPc \in {"returned", "raised"}

\* C12: an empty query or a limit <= 0 returns the empty list, raises
\* nothing and makes no request to the source, whether pytube is there or
\* not; the error about the missing pytube is raised only for a non-empty
\* query with a positive limit.
C12_CheapPreconditions ==
    (YtEnded /\ (query = "" \/ ytLimit <= 0)) =>
        /\ ytPc = "returned"
        /\ ytReturn = NoReturn
        /\ contacts = 0

\* C13: for a non-empty query and a limit > 0 the list returned holds the
\* entries of the first min(limit, total) videos of the source's stream, in
\* order and each once; it is never longer than limit, and it is shorter
\* only when every video delivered was taken and the source has no more.
C13_FirstItemsInOrder ==
    (ytPc = "returned" /\ query # "" /\ ytLimit > 0) =>
        LET n == Len(ytReturn.value)
        IN  /\ n <= ytLimit
            /\ n <= Len(search.results)
            /\ ytReturn.value = [i \in 1..n |-> Entry(Video(i))]
            /\ n < ytLimit => (n = Len(search.results) /\ ~search.has_more_results)

\* a call that asked for further pages twice and reached the limit in the
\* middle of the last one
C13_Witness ==
    /\ ytPc = "returned"
    /\ ytLimit = 3
    /\ Len(ytReturn.value) = 3
    /\ Len(search.results) = 4
    /\ contacts = 3

\* C18: the loop of search_youtube ends whatever the source does: the call
\* returns (or raises) in the end, also when the source says it has more
\* and the next page brings no new video.
C18_Terminates == <>YtEnded

(* ========================= the whole program ========================== *)
\* The components meet only in the log file (generate_queries reads and
\* appends to it), so each claim is checked under the specification of the
\* component it is about; Spec is their composition.
Init == InitLog \/ InitParse \/ InitGen \/ InitAcq \/ InitSearch

Next == NextLog \/ NextParse \/ NextGen \/ NextAcq \/ NextSearch

Spec == Init /\ [][Next]_vars

====
